---- MODULE Spec2Model ----
(***************************************************************************)
(* wsl2-get-display (src/main.rs): find the WSL2 host's IP address from    *)
(* /etc/resolv.conf or from `ip -4 -json route show default`, then probe   *)
(* TCP port 6000 + display_number with a bounded retry loop and report     *)
(* "<host_ip>:<display_number>" on stdout (exit 0), nothing (exit 1) or an *)
(* error on stderr (exit 2).                                               *)
(*                                                                         *)
(* Text is modelled as a sequence of chunks: a chunk is either one of the  *)
(* whitespace characters SP, NL or a run of non-whitespace characters that *)
(* the program only ever handles as a unit ("nameserver", "172.30.192.1"). *)
(* Two adjacent non-whitespace chunks form one longer word.                *)
(***************************************************************************)
EXTENDS Integers, Sequences, FiniteSets, TLC

(* ------------------------------ bounds -------------------------------- *)
MaxLines == 2      \* lines in /etc/resolv.conf
MaxRecords == 2    \* records in the array printed by `ip route`
MaxRetries == 3    \* largest --retries value drawn

(* ------------------------------- text --------------------------------- *)
SP == " "
NL == "\n"
NS == "nameserver"
TxtA == "172.30.192.1"
TxtB == "10.0.0.1"
TxtL == "0:0:0:0:0:0:0:1"   \* long form of the IPv6 loopback address
TxtS == "::1"               \* its canonical form
TxtX == "x"                 \* some other run of non-whitespace characters

None == [some |-> FALSE, v |-> <<>>]
Some(x) == [some |-> TRUE, v |-> x]

\* the segments of s between occurrences of sep (empty segments included)
RECURSIVE SplitOn(_, _)
SplitOn(s, sep) ==
    IF \A i \in 1..Len(s) : s[i] # sep
    THEN <<s>>
    ELSE LET k == CHOOSE i \in 1..Len(s) :
                      s[i] = sep /\ \A j \in 1..(i - 1) : s[j] # sep
         IN <<SubSeq(s, 1, k - 1)>> \o SplitOn(SubSeq(s, k + 1, Len(s)), sep)

NonEmpty(s) == s # <<>>

\* str::lines(): split at line feeds; a final empty segment is not a line
Lines(text) ==
    LET segs == SplitOn(text, NL)
    IN IF segs[Len(segs)] = <<>> THEN SubSeq(segs, 1, Len(segs) - 1) ELSE segs

\* str::split_ascii_whitespace(): the maximal non-empty runs of non-whitespace
SplitAsciiWhitespace(line) == SelectSeq(SplitOn(line, SP), NonEmpty)

(* --------------------------- IP addresses ----------------------------- *)
IpA == [v |-> 4, w |-> <<172, 30, 192, 1>>]
IpB == [v |-> 4, w |-> <<10, 0, 0, 1>>]
IpL == [v |-> 6, w |-> <<0, 0, 0, 0, 0, 0, 0, 1>>]
NoIp == [v |-> 0, w |-> <<>>]

Ok(ip) == [ok |-> TRUE, ip |-> ip, err |-> "none"]
Err(e) == [ok |-> FALSE, ip |-> NoIp, err |-> e]

\* str::parse::<IpAddr>(): the whole string must be one address; no trimming
ParseIpAddr(s) ==
    IF Len(s) # 1 THEN Err("ParseError")
    ELSE CASE s[1] = TxtA -> Ok(IpA)
           [] s[1] = TxtB -> Ok(IpB)
           [] s[1] = TxtL -> Ok(IpL)
           [] s[1] = TxtS -> Ok(IpL)
           [] OTHER -> Err("ParseError")

\* <IpAddr as Display>::fmt: the canonical text of an address
IpToString(ip) ==
    CASE ip = IpA -> TxtA
      [] ip = IpB -> TxtB
      [] ip = IpL -> TxtS
      [] OTHER -> "?"

(* ------------------------------ logging ------------------------------- *)
\* what a resolver hands back: its Result and what it wrote to stderr
Out(res, log) == [res |-> res, log |-> log]

\* debug!: the message reaches stderr only when DEBUG is set
debug(DEBUG, msg) == IF DEBUG THEN <<[kind |-> "debug", what |-> msg]>> ELSE <<>>

\* eprintln!("warning: ...")
Warning(msg) == <<[kind |-> "warning", what |-> msg]>>

(* ------------------- strategy A: /etc/resolv.conf --------------------- *)
\* NameserverOf taking any first word that starts with the keyword
NameserverOfPrefix(line) ==
    LET words == SplitAsciiWhitespace(line)
    IN IF Len(words) >= 2 /\ words[1][1] = NS THEN Some(words[2]) ELSE None

\* the closure of find_map: the second word of a line whose first word is
\* "nameserver", when the line has a second word
NameserverOf(line) ==
    LET words == SplitAsciiWhitespace(line)
    IN IF Len(words) >= 2 /\ words[1] = <<NS>> THEN Some(words[2]) ELSE None

\* FindMap keeping the closure's last Some instead of its first
FindMapLast(lines) ==
    LET hits == {i \in 1..Len(lines) : NameserverOf(lines[i]).some}
    IN IF hits = {} THEN None
       ELSE NameserverOf(lines[CHOOSE i \in hits : \A j \in hits : i >= j])

\* FindMap going on to the first line whose address parses
FindMapValid(lines) ==
    LET hits == {i \in 1..Len(lines) : NameserverOf(lines[i]).some}
        good == {i \in hits : ParseIpAddr(NameserverOf(lines[i]).v).ok}
        from == IF good = {} THEN hits ELSE good
    IN IF hits = {} THEN None
       ELSE NameserverOf(lines[CHOOSE i \in from : \A j \in from : i <= j])

\* Iterator::find_map: the closure's first Some, scanning in order
FindMap(lines) ==
    LET hits == {i \in 1..Len(lines) : NameserverOf(lines[i]).some}
    IN IF hits = {} THEN None
       ELSE NameserverOf(lines[CHOOSE i \in hits : \A j \in hits : i <= j])

\* file = [status: "ok" | "unreadable" | "not_utf8", text]
host_ip_from_resolv_conf(file) ==
    IF file.status = "unreadable" THEN Out(Err("ReadError"), <<>>)
    ELSE IF file.status = "not_utf8" THEN Out(Err("DecodeError"), <<>>)
    ELSE LET found == FindMap(Lines(file.text))
         IN IF ~found.some THEN Out(Err("NotFound"), <<>>)
            ELSE Out(ParseIpAddr(found.v), <<>>)

(* ---------------------- strategy B: ip route -------------------------- *)
\* serde_json values: a field value is null (also: absent), a string or a number
Null == [t |-> "null", s |-> <<>>]
Str(s) == [t |-> "string", s |-> s]
Num == [t |-> "number", s |-> <<>>]
Object(dst, gateway) == [t |-> "object", dst |-> dst, gateway |-> gateway]
Array(values) == [t |-> "array", values |-> values]
NotArray == [t |-> "object", values |-> <<>>]

\* Value::index by key: Null unless the value is an object holding the key
Index(js, key) ==
    IF js.t # "object" THEN Null
    ELSE IF key = "dst" THEN js.dst ELSE js.gateway

\* Value::as_str
AsStr(val) == IF val.t = "string" THEN Some(val.s) ELSE None

\* the gateway of the chosen record
GatewayOf(js) ==
    LET gw == AsStr(Index(js, "gateway"))
    IN IF ~gw.some THEN Err("ParseError") ELSE ParseIpAddr(gw.v)

\* RouteRecord with the two checks in the other order
RouteRecordGatewayFirst(js) ==
    IF ~GatewayOf(js).ok THEN GatewayOf(js)
    ELSE IF AsStr(Index(js, "dst")) # Some(<<"default">>) THEN Err("ValidationError")
    ELSE GatewayOf(js)

\* the checks made on the chosen record: "dst", then "gateway"
RouteRecord(js) ==
    IF AsStr(Index(js, "dst")) # Some(<<"default">>) THEN Err("ValidationError")
    ELSE GatewayOf(js)

\* Chosen taking the last record: values.pop()
ChosenLast(values) == values[Len(values)]

\* the record taken out of the array: values.remove(0)
Chosen(values) == values[1]

\* cmd = [exec: "ok" | "spawn_failed" | "exit_nonzero", json: BOOLEAN, js]
host_ip_from_route(cmd, DEBUG) ==
    IF cmd.exec # "ok" THEN Out(Err("ExecError"), <<>>)
    ELSE IF ~cmd.json THEN Out(Err("DecodeError"), <<>>)
    ELSE LET js == cmd.js
             log == debug(DEBUG, "returned parsed data")
         IN IF js.t # "array" THEN Out(Err("NotAnArray"), log)
            ELSE IF js.values = <<>> THEN Out(Err("NotFound"), log)
            ELSE Out(RouteRecord(Chosen(js.values)),
                     log \o (IF Len(js.values) > 1
                             THEN Warning("multiple default routes") ELSE <<>>))

(* ------------------------------ inputs -------------------------------- *)
\* X11 port number is 6000 plus the display number
DISPLAY_PORT_OFFSET == 6000
U16Max == 65535
TimeoutMs == 100
DefaultTimeoutMs == 500

\* --timeout in milliseconds, --retries, [DISPLAY_NUMBER]
Timeouts == {TimeoutMs, DefaultTimeoutMs}
RetryCounts == 0..MaxRetries
DisplayNumbers == {0, 1, U16Max - DISPLAY_PORT_OFFSET, U16Max - DISPLAY_PORT_OFFSET + 1, U16Max}

\* sequences over S of length at most n
SeqsUpTo(S, n) == UNION {[1..k -> S] : k \in 0..n}

RECURSIVE Concat(_)
Concat(ss) == IF ss = <<>> THEN <<>> ELSE Head(ss) \o Concat(Tail(ss))

FileLines ==
    { <<NS>>,
      <<NS, SP, TxtA, SP, TxtX>>,
      <<SP, NS, SP, SP, TxtL>>,
      <<NS, SP, TxtX>>,
      <<NS, TxtX, SP, TxtB>>,
      <<TxtX, SP, NS, SP, TxtB>> }

\* a readable /etc/resolv.conf: every line ends in a line feed
FileTexts == {Concat([i \in DOMAIN ls |-> ls[i] \o <<NL>>]) : ls \in SeqsUpTo(FileLines, MaxLines)}

NoFile == [status |-> "ok", text |-> <<>>]
Files ==
    {[status |-> "ok", text |-> t] : t \in FileTexts}
    \cup {[status |-> st, text |-> <<>>] : st \in {"unreadable", "not_utf8"}}

Default == Str(<<"default">>)
Records ==
    { Object(Default, Str(<<TxtA>>)),
      Object(Default, Str(<<TxtB>>)),
      Object(Default, Str(<<TxtX>>)),
      Object(Default, Null),
      Object(Default, Num),
      Object(Str(<<TxtX>>), Str(<<TxtA>>)),
      Object(Null, Null) }

NoCmd == [exec |-> "ok", json |-> TRUE, js |-> Array(<<>>)]
Cmds ==
    {[exec |-> "ok", json |-> TRUE, js |-> Array(vs)] : vs \in SeqsUpTo(Records, MaxRecords)}
    \cup {[exec |-> "ok", json |-> TRUE, js |-> NotArray],
          [exec |-> "ok", json |-> FALSE, js |-> NotArray],
          [exec |-> "spawn_failed", json |-> FALSE, js |-> NotArray],
          [exec |-> "exit_nonzero", json |-> FALSE, js |-> NotArray]}

\* what TcpStream::connect_timeout can return: Ok, or an error of some kind
ConnectResults == {"ok", "refused", "timed_out", "other"}

\* -R / --resolv-conf is a switch: off unless given
ResolvConfDefault == FALSE

(* ------------------------------- state -------------------------------- *)
Runs == {1, 2}

VARIABLES
    resolv_conf, display_number, retries, timeout, verbose,   \* Args
    file, cmd,              \* /etc/resolv.conf; the outcome of running `ip`
    results,                \* what the network answered, attempt by attempt
    pc,                     \* where each run is
    host_ip, port, retry,   \* locals of run()
    last,                   \* the value being matched in the loop body
    conn,                   \* TCP connections the run holds open
    attempts, sleeps, slept,\* connect_timeout calls, sleep calls, ms slept
    io,                     \* bytes read from or written to a connection
    file_reads, cmd_runs,   \* fs::read calls, `ip` executions
    ret,                    \* what run() returned
    stdout, stderr, exit_code

args == <<resolv_conf, display_number, retries, timeout, verbose>>
env == <<file, cmd>>
locals == <<host_ip, port, retry, last>>
probe == <<conn, attempts, sleeps, slept, io>>
resolving == <<file_reads, cmd_runs>>
outs == <<stdout, stderr, exit_code>>
vars == <<args, env, results, pc, locals, probe, resolving, ret, outs>>

NotReturned == [tag |-> "none", s |-> <<>>, err |-> "none"]
OkSome(s) == [tag |-> "some", s |-> s, err |-> "none"]
OkNone == [tag |-> "nothing", s |-> <<>>, err |-> "none"]
Failure(e) == [tag |-> "err", s |-> <<>>, err |-> e]

Init ==
    /\ resolv_conf \in BOOLEAN
    /\ display_number \in DisplayNumbers
    /\ retries \in RetryCounts
    /\ timeout \in Timeouts
    /\ verbose \in {[r \in Runs |-> IF r = 1 THEN v ELSE ~v] : v \in BOOLEAN}
    /\ IF resolv_conf THEN file \in Files /\ cmd = NoCmd
                      ELSE file = NoFile /\ cmd \in Cmds
    /\ results = <<>>
    /\ pc = [r \in Runs |-> "Resolving"]
    /\ host_ip = [r \in Runs |-> NoIp]
    /\ port = [r \in Runs |-> 0]
    /\ retry = [r \in Runs |-> 0]
    /\ last = [r \in Runs |-> "none"]
    /\ conn = [r \in Runs |-> 0]
    /\ attempts = [r \in Runs |-> 0]
    /\ sleeps = [r \in Runs |-> 0]
    /\ slept = [r \in Runs |-> 0]
    /\ io = [r \in Runs |-> 0]
    /\ file_reads = [r \in Runs |-> 0]
    /\ cmd_runs = [r \in Runs |-> 0]
    /\ ret = [r \in Runs |-> NotReturned]
    /\ stdout = [r \in Runs |-> <<>>]
    /\ stderr = [r \in Runs |-> <<>>]
    /\ exit_code = [r \in Runs |-> -1]

(* ------------------------------ run() --------------------------------- *)
\* Resolved with the error dropped: go on with whatever address there is
ResolvedUnchecked(r, out) ==
    /\ stderr' = [stderr EXCEPT ![r] = @ \o out.log]
    /\ host_ip' = [host_ip EXCEPT ![r] = out.res.ip]
    /\ pc' = [pc EXCEPT ![r] = "Probing"]
    /\ UNCHANGED <<args, env, results, port, retry, last, probe, ret, stdout, exit_code>>

\* `?` on the resolver's Result: bind host_ip, or return the error
Resolved(r, out) ==
    /\ stderr' = [stderr EXCEPT ![r] = @ \o out.log]
    /\ IF out.res.ok
       THEN /\ host_ip' = [host_ip EXCEPT ![r] = out.res.ip]
            /\ pc' = [pc EXCEPT ![r] = "Probing"]
            /\ UNCHANGED ret
       ELSE /\ ret' = [ret EXCEPT ![r] = Failure(out.res.err)]
            /\ pc' = [pc EXCEPT ![r] = "Returned"]
            /\ UNCHANGED host_ip
    /\ UNCHANGED <<args, env, results, port, retry, last, probe, stdout, exit_code>>

\* ResolveFromResolvConf falling back to `ip route` when the file gives nothing
ResolveFromResolvConfFallback(r) ==
    /\ pc[r] = "Resolving"
    /\ resolv_conf
    /\ file_reads' = [file_reads EXCEPT ![r] = @ + 1]
    /\ IF host_ip_from_resolv_conf(file).res.ok
       THEN /\ UNCHANGED cmd_runs
            /\ Resolved(r, host_ip_from_resolv_conf(file))
       ELSE /\ cmd_runs' = [cmd_runs EXCEPT ![r] = @ + 1]
            /\ Resolved(r, host_ip_from_route(cmd, verbose[r]))

ResolveFromResolvConf(r) ==
    /\ pc[r] = "Resolving"
    /\ resolv_conf
    /\ file_reads' = [file_reads EXCEPT ![r] = @ + 1]
    /\ UNCHANGED cmd_runs
    /\ Resolved(r, host_ip_from_resolv_conf(file))

ResolveFromRoute(r) ==
    /\ pc[r] = "Resolving"
    /\ ~resolv_conf
    /\ cmd_runs' = [cmd_runs EXCEPT ![r] = @ + 1]
    /\ UNCHANGED file_reads
    /\ Resolved(r, host_ip_from_route(cmd, verbose[r]))

\* CheckedAdd as u16::wrapping_add
WrappingAdd(a, b) == Some((a + b) % (U16Max + 1))

\* u16::checked_add
CheckedAdd(a, b) == IF a + b > U16Max THEN None ELSE Some(a + b)

ComputePort(r) ==
    /\ pc[r] = "Probing"
    /\ LET p == CheckedAdd(DISPLAY_PORT_OFFSET, display_number)
       IN IF p.some
          THEN /\ port' = [port EXCEPT ![r] = p.v]
               /\ stderr' = [stderr EXCEPT ![r] = @ \o debug(verbose[r], "connecting to")]
               /\ pc' = [pc EXCEPT ![r] = "Loop"]
               /\ UNCHANGED ret
          ELSE /\ ret' = [ret EXCEPT ![r] = Failure("Overflow")]
               /\ pc' = [pc EXCEPT ![r] = "Returned"]
               /\ UNCHANGED <<port, stderr>>
    /\ UNCHANGED <<args, env, results, host_ip, retry, last, probe, resolving,
                   stdout, exit_code>>

\* the network's answer to attempt k: the recorded one, or a new one
Answer(k, res) ==
    IF k <= Len(results)
    THEN res = results[k] /\ UNCHANGED results
    ELSE results' = Append(results, res)

\* Connect under `for retry in 0..=args.retries`: one iteration too many
ConnectOffByOne(r) ==
    /\ pc[r] = "Loop"
    /\ retry[r] <= retries
    /\ retry' = [retry EXCEPT ![r] = @ + 1]
    /\ \E res \in ConnectResults :
          /\ Answer(retry[r] + 1, res)
          /\ last' = [last EXCEPT ![r] = res]
          /\ conn' = [conn EXCEPT ![r] = IF res = "ok" THEN @ + 1 ELSE @]
    /\ attempts' = [attempts EXCEPT ![r] = @ + 1]
    /\ stderr' = [stderr EXCEPT ![r] = @ \o debug(verbose[r], "connect attempt")]
    /\ pc' = [pc EXCEPT ![r] = "Matching"]
    /\ UNCHANGED <<args, env, host_ip, port, sleeps, slept, io, resolving, ret,
                   stdout, exit_code>>

\* the next iteration of `for retry in 1..=args.retries`: one connect_timeout
Connect(r) ==
    /\ pc[r] = "Loop"
    /\ retry[r] < retries
    /\ retry' = [retry EXCEPT ![r] = @ + 1]
    /\ \E res \in ConnectResults :
          /\ Answer(retry[r] + 1, res)
          /\ last' = [last EXCEPT ![r] = res]
          /\ conn' = [conn EXCEPT ![r] = IF res = "ok" THEN @ + 1 ELSE @]
    /\ attempts' = [attempts EXCEPT ![r] = @ + 1]
    /\ stderr' = [stderr EXCEPT ![r] = @ \o debug(verbose[r], "connect attempt")]
    /\ pc' = [pc EXCEPT ![r] = "Matching"]
    /\ UNCHANGED <<args, env, host_ip, port, sleeps, slept, io, resolving, ret,
                   stdout, exit_code>>

\* Format given the port in place of the display number
FormatPort(ip, n) == <<IpToString(ip), ":", DISPLAY_PORT_OFFSET + n>>

\* format!("{}:{}", host_ip, args.display_number)
Format(ip, n) == <<IpToString(ip), ":", n>>

\* ConnOk without the return: the loop goes on
ConnOkContinue(r) ==
    /\ pc[r] = "Matching"
    /\ last[r] = "ok"
    /\ stderr' = [stderr EXCEPT ![r] = @ \o debug(verbose[r], "connection succeeded")]
    /\ conn' = [conn EXCEPT ![r] = @ - 1]
    /\ pc' = [pc EXCEPT ![r] = "Loop"]
    /\ UNCHANGED <<args, env, results, locals, attempts, sleeps, slept, io, resolving,
                   ret, stdout, exit_code>>

\* ConnOk keeping the connection: it is never dropped
ConnOkLeak(r) ==
    /\ pc[r] = "Matching"
    /\ last[r] = "ok"
    /\ stderr' = [stderr EXCEPT ![r] = @ \o debug(verbose[r], "connection succeeded")]
    /\ ret' = [ret EXCEPT ![r] = OkSome(<<IpToString(host_ip[r]), ":", display_number>>)]
    /\ pc' = [pc EXCEPT ![r] = "Returned"]
    /\ UNCHANGED <<args, env, results, locals, probe, resolving, stdout, exit_code>>

\* Ok(conn): return the display string; conn is dropped, closing the connection
ConnOk(r) ==
    /\ pc[r] = "Matching"
    /\ last[r] = "ok"
    /\ stderr' = [stderr EXCEPT ![r] = @ \o debug(verbose[r], "connection succeeded")]
    /\ ret' = [ret EXCEPT ![r] = OkSome(Format(host_ip[r], display_number))]
    /\ conn' = [conn EXCEPT ![r] = @ - 1]
    /\ pc' = [pc EXCEPT ![r] = "Returned"]
    /\ UNCHANGED <<args, env, results, locals, attempts, sleeps, slept, io, resolving,
                   stdout, exit_code>>

\* ConnTimedOut sleeping like the refused arm
ConnTimedOutSleep(r) ==
    /\ pc[r] = "Matching"
    /\ last[r] = "timed_out"
    /\ stderr' = [stderr EXCEPT ![r] = @ \o debug(verbose[r], "connection failed")]
    /\ sleeps' = [sleeps EXCEPT ![r] = @ + 1]
    /\ slept' = [slept EXCEPT ![r] = @ + timeout]
    /\ pc' = [pc EXCEPT ![r] = "Sleeping"]
    /\ UNCHANGED <<args, env, results, locals, conn, attempts, io, resolving, ret,
                   stdout, exit_code>>

\* ErrorKind::TimedOut => (): retry immediately
ConnTimedOut(r) ==
    /\ pc[r] = "Matching"
    /\ last[r] = "timed_out"
    /\ stderr' = [stderr EXCEPT ![r] = @ \o debug(verbose[r], "connection failed")]
    /\ pc' = [pc EXCEPT ![r] = "Loop"]
    /\ UNCHANGED <<args, env, results, locals, probe, resolving, ret, stdout, exit_code>>

\* ErrorKind::ConnectionRefused => sleep(args.timeout): the sleep starts
ConnRefused(r) ==
    /\ pc[r] = "Matching"
    /\ last[r] = "refused"
    /\ stderr' = [stderr EXCEPT ![r] = @ \o debug(verbose[r], "connection failed")]
    /\ sleeps' = [sleeps EXCEPT ![r] = @ + 1]
    /\ slept' = [slept EXCEPT ![r] = @ + timeout]
    /\ pc' = [pc EXCEPT ![r] = "Sleeping"]
    /\ UNCHANGED <<args, env, results, locals, conn, attempts, io, resolving, ret,
                   stdout, exit_code>>

\* sleep returns; the loop goes on
SleepDone(r) ==
    /\ pc[r] = "Sleeping"
    /\ pc' = [pc EXCEPT ![r] = "Loop"]
    /\ UNCHANGED <<args, env, results, locals, probe, resolving, ret, outs>>

\* ConnOther swallowing the error: the loop goes on
ConnOtherRetry(r) ==
    /\ pc[r] = "Matching"
    /\ last[r] = "other"
    /\ stderr' = [stderr EXCEPT ![r] = @ \o debug(verbose[r], "connection failed")]
    /\ pc' = [pc EXCEPT ![r] = "Loop"]
    /\ UNCHANGED <<args, env, results, locals, probe, resolving, ret, stdout, exit_code>>

\* ConnOther handled like the refused arm: sleep, then go on
ConnOtherSleep(r) ==
    /\ pc[r] = "Matching"
    /\ last[r] = "other"
    /\ stderr' = [stderr EXCEPT ![r] = @ \o debug(verbose[r], "connection failed")]
    /\ sleeps' = [sleeps EXCEPT ![r] = @ + 1]
    /\ slept' = [slept EXCEPT ![r] = @ + timeout]
    /\ pc' = [pc EXCEPT ![r] = "Sleeping"]
    /\ UNCHANGED <<args, env, results, locals, conn, attempts, io, resolving, ret,
                   stdout, exit_code>>

\* _ => return Err(e.into())
ConnOther(r) ==
    /\ pc[r] = "Matching"
    /\ last[r] = "other"
    /\ stderr' = [stderr EXCEPT ![r] = @ \o debug(verbose[r], "connection failed")]
    /\ ret' = [ret EXCEPT ![r] = Failure("IoError")]
    /\ pc' = [pc EXCEPT ![r] = "Returned"]
    /\ UNCHANGED <<args, env, results, locals, probe, resolving, stdout, exit_code>>

\* Exhausted with its message printed by println!
ExhaustedPrintln(r) ==
    /\ pc[r] = "Loop"
    /\ retry[r] >= retries
    /\ stdout' = [stdout EXCEPT ![r] = @ \o debug(verbose[r], "retries exhausted")]
    /\ ret' = [ret EXCEPT ![r] = OkNone]
    /\ pc' = [pc EXCEPT ![r] = "Returned"]
    /\ UNCHANGED <<args, env, results, locals, probe, resolving, stderr, exit_code>>

\* the range is used up: Ok(None)
Exhausted(r) ==
    /\ pc[r] = "Loop"
    /\ retry[r] >= retries
    /\ stderr' = [stderr EXCEPT ![r] = @ \o debug(verbose[r], "retries exhausted")]
    /\ ret' = [ret EXCEPT ![r] = OkNone]
    /\ pc' = [pc EXCEPT ![r] = "Returned"]
    /\ UNCHANGED <<args, env, results, locals, probe, resolving, stdout, exit_code>>

(* ------------------------------ main() -------------------------------- *)
\* Ok(Some(s)) => println!("{}", s); main returns
MainSome(r) ==
    /\ pc[r] = "Returned"
    /\ ret[r].tag = "some"
    /\ stdout' = [stdout EXCEPT ![r] = Append(@, ret[r].s)]
    /\ exit_code' = [exit_code EXCEPT ![r] = 0]
    /\ pc' = [pc EXCEPT ![r] = "Exited"]
    /\ UNCHANGED <<args, env, results, locals, probe, resolving, ret, stderr>>

\* Ok(None) => exit(1)
MainNone(r) ==
    /\ pc[r] = "Returned"
    /\ ret[r].tag = "nothing"
    /\ exit_code' = [exit_code EXCEPT ![r] = 1]
    /\ pc' = [pc EXCEPT ![r] = "Exited"]
    /\ UNCHANGED <<args, env, results, locals, probe, resolving, ret, stdout, stderr>>

\* Err(e) => { eprintln!("Error: {:#}", e); exit(2) }
MainErr(r) ==
    /\ pc[r] = "Returned"
    /\ ret[r].tag = "err"
    /\ stderr' = [stderr EXCEPT ![r] = Append(@, [kind |-> "error", what |-> ret[r].err])]
    /\ exit_code' = [exit_code EXCEPT ![r] = 2]
    /\ pc' = [pc EXCEPT ![r] = "Exited"]
    /\ UNCHANGED <<args, env, results, locals, probe, resolving, ret, stdout>>

Step(r) ==
    \/ ResolveFromResolvConf(r)
    \/ ResolveFromRoute(r)
    \/ ComputePort(r)
    \/ Connect(r)
    \/ ConnOk(r)
    \/ ConnTimedOut(r)
    \/ ConnRefused(r)
    \/ SleepDone(r)
    \/ ConnOther(r)
    \/ Exhausted(r)
    \/ MainSome(r)
    \/ MainNone(r)
    \/ MainErr(r)

\* one invocation of the program
Next == Step(1)
Spec == Init /\ [][Next]_vars

\* the invocation on a few resolver inputs: a resolver file that is empty,
\* holds the bare keyword or cannot be read, and an `ip` that prints one good
\* record or fails (an address is resolved through `ip route` here)
FewFiles ==
    {NoFile, [status |-> "ok", text |-> <<NS, NL>>], [status |-> "unreadable", text |-> <<>>]}
FewCmds ==
    {NoCmd,
     [exec |-> "ok", json |-> TRUE, js |-> Array(<<Object(Default, Str(<<TxtA>>))>>)],
     [exec |-> "exit_nonzero", json |-> FALSE, js |-> NotArray]}
InitFew == Init /\ file \in FewFiles /\ cmd \in FewCmds

\* the program is sequential and every call it blocks in returns: a run that
\* can take a step takes one
FairSpec == InitFew /\ [][Next]_vars /\ WF_vars(Next)

\* the invocation, then a second one with the other --verbose setting, the
\* same arguments otherwise, the same files and the same network answers
NextPair == Step(1) \/ (pc[1] = "Exited" /\ Step(2))
SpecPair == Init /\ [][NextPair]_vars

(* ---------------------------- observations --------------------------- *)
Terminal(r) == pc[r] = "Exited"
Succeeded(r) == Terminal(r) /\ exit_code[r] = 0
Absent(r) == Terminal(r) /\ exit_code[r] = 1
Failed(r) == Terminal(r) /\ exit_code[r] = 2

\* the answers run r's connect attempts got, in order
Seen(r) == SubSeq(results, 1, attempts[r])
AllAre(seq, kind) == \A i \in DOMAIN seq : seq[i] = kind
Count(seq, kind) == Cardinality({i \in DOMAIN seq : seq[i] = kind})

IsError(m) == m.kind = "error"
IsWarning(m) == m.kind = "warning"
IsDebug(m) == m.kind = "debug"
Errors(r) == SelectSeq(stderr[r], IsError)

\* what the selected strategy answers on this run's inputs
Strategy == IF resolv_conf THEN host_ip_from_resolv_conf(file).res
                           ELSE host_ip_from_route(cmd, FALSE).res
Overflows == DISPLAY_PORT_OFFSET + display_number > U16Max

(* ------------------------------- claims ------------------------------- *)

\* C1 (as stated): when every attempt is refused and retries = N >= 1, the run
\* makes exactly N attempts and sleeps exactly N - 1 times, each for the
\* timeout, never after the last attempt, and ends Absent.
C1_RefusedSleepsBetweenAttempts ==
    \A r \in Runs :
        (Terminal(r) /\ attempts[r] >= 1 /\ AllAre(Seen(r), "refused"))
            => /\ attempts[r] = retries
               /\ sleeps[r] = retries - 1
               /\ slept[r] = (retries - 1) * timeout
               /\ Absent(r)

\* C2: a run that has ended has exit code 0 with exactly the display string
\* on stdout, or 1 with nothing on stdout and no error message, or 2 with an
\* error message on stderr and nothing on stdout; exit code 1 needs every
\* attempt of the retry budget to have been refused or timed out; a resolver
\* error, a port overflow or another connect error ends with exit code 2.
C2_ThreeOutcomes ==
    \A r \in Runs :
        Terminal(r) =>
            /\ exit_code[r] \in {0, 1, 2}
            /\ Succeeded(r) =>
                  /\ stdout[r] = <<Format(Strategy.ip, display_number)>>
                  /\ Errors(r) = <<>>
            /\ Absent(r) =>
                  /\ stdout[r] = <<>>
                  /\ Errors(r) = <<>>
                  /\ attempts[r] = retries
                  /\ \A i \in 1..attempts[r] : results[i] \in {"refused", "timed_out"}
            /\ Failed(r) =>
                  /\ stdout[r] = <<>>
                  /\ Len(Errors(r)) = 1
                  /\ IsError(stderr[r][Len(stderr[r])])
            /\ (~Strategy.ok \/ Overflows \/ \E i \in 1..attempts[r] : results[i] = "other")
                  => Failed(r)

C2_Witness ==
    /\ Absent(1)
    /\ retries = 2
    /\ results = <<"timed_out", "refused">>

\* C3: a run exits 0 exactly when one of its connect attempts completed, and
\* then stdout is one line, "<host_ip>:<display_number>", with the address
\* the resolver returned and the display number, not the port.
C3_SuccessPrintsDisplay ==
    \A r \in Runs :
        Terminal(r) =>
            /\ Succeeded(r) <=> \E i \in 1..attempts[r] : results[i] = "ok"
            /\ Succeeded(r) =>
                  /\ Strategy.ok
                  /\ host_ip[r] = Strategy.ip
                  /\ stdout[r] = <<<<IpToString(Strategy.ip), ":", display_number>>>>
            /\ (Succeeded(r) /\ Strategy.ip = IpA /\ display_number = 1)
                  => /\ port[r] = 6001
                     /\ stdout[r] = <<<<"172.30.192.1", ":", 1>>>>

C3_Witness ==
    /\ Succeeded(1)
    /\ resolv_conf
    /\ host_ip[1] = IpA
    /\ display_number = 1
    /\ port[1] = 6001

\* C4 (as stated): for every display number d with 6000 + d > 65535 the run
\* ends Failed with the overflow error and without a connect attempt; for
\* every other d the probed port is 6000 + d.
C4_OverflowAlwaysReported ==
    \A r \in Runs :
        /\ (Terminal(r) /\ display_number + 6000 > 65535)
              => /\ Failed(r)
                 /\ ret[r].err = "Overflow"
                 /\ attempts[r] = 0
        /\ (attempts[r] >= 1 /\ display_number + 6000 <= 65535)
              => port[r] = display_number + 6000

\* C4 (amended): for every display number d with 6000 + d > 65535 the run
\* ends Failed without a connect attempt and without a port having been
\* computed, and the error reported is the overflow error whenever the
\* resolver succeeded (a resolver error is reported instead when it failed);
\* for every other d the probed port is 6000 + d.
C4_OverflowFails ==
    \A r \in Runs :
        /\ display_number + 6000 > 65535
              => /\ attempts[r] = 0
                 /\ port[r] = 0
                 /\ pc[r] \notin {"Loop", "Matching", "Sleeping"}
                 /\ Terminal(r) =>
                       /\ Failed(r)
                       /\ Strategy.ok => Errors(r) = <<[kind |-> "error", what |-> "Overflow"]>>
                       /\ ~Strategy.ok => Errors(r) = <<[kind |-> "error", what |-> Strategy.err]>>
        /\ (attempts[r] >= 1 /\ display_number + 6000 <= 65535)
              => port[r] = display_number + 6000

C4_Witness ==
    /\ Failed(1)
    /\ display_number = 65535
    /\ host_ip[1] = IpA
    /\ ret[1].err = "Overflow"

\* C5: when every attempt times out and retries = N, the run makes exactly N
\* attempts and no sleep and ends Absent; in general a run is asleep only
\* directly after a refused attempt, and has slept at most once per refused
\* attempt.
C5_TimedOutRetriesAtOnce ==
    \A r \in Runs :
        /\ (Terminal(r) /\ attempts[r] >= 1 /\ AllAre(Seen(r), "timed_out"))
              => /\ attempts[r] = retries
                 /\ sleeps[r] = 0
                 /\ slept[r] = 0
                 /\ Absent(r)
        /\ pc[r] = "Sleeping" => results[attempts[r]] = "refused"
        /\ sleeps[r] <= Count(Seen(r), "refused")

C5_Witness ==
    /\ Absent(1)
    /\ retries = 3
    /\ results = <<"timed_out", "timed_out", "timed_out">>
    /\ sleeps[1] = 0

\* C6: if attempt k succeeds, it is the run's last attempt, every sleep made
\* belongs to a refused attempt before k, no byte is exchanged, and once run()
\* has returned the connection is closed and the result is the display
\* string (exit 0); a success on attempt 1 comes with no sleep at all.
C6_FirstSuccessEndsLoop ==
    \A r \in Runs : \A k \in 1..attempts[r] :
        results[k] = "ok" =>
            /\ attempts[r] = k
            /\ pc[r] \in {"Matching", "Returned", "Exited"}
            /\ sleeps[r] = Count(SubSeq(results, 1, k - 1), "refused")
            /\ k = 1 => sleeps[r] = 0 /\ slept[r] = 0
            /\ io[r] = 0
            /\ pc[r] = "Matching" => conn[r] = 1
            /\ pc[r] \in {"Returned", "Exited"} => conn[r] = 0 /\ ret[r].tag = "some"
            /\ Terminal(r) => Succeeded(r)

C6_Witness ==
    /\ Succeeded(1)
    /\ retries = 3
    /\ results = <<"refused", "ok">>
    /\ attempts[1] = 2
    /\ sleeps[1] = 1

\* the lines of the resolver file, each as its words
FileWords == [i \in DOMAIN Lines(file.text) |-> SplitAsciiWhitespace(Lines(file.text)[i])]
\* the lines whose first word is "nameserver"
KeywordLines == {i \in DOMAIN FileWords : FileWords[i] # <<>> /\ FileWords[i][1] = <<NS>>}
\* those of them that have a second word
AddressLines == {i \in KeywordLines : Len(FileWords[i]) >= 2}
First(S) == CHOOSE i \in S : \A j \in S : i <= j
\* run r's resolver has just answered
JustResolved(r) == pc[r] = "Probing" \/ (pc[r] = "Returned" /\ host_ip[r] = NoIp)
\* strategy A has just run on a readable file
ReadResolvConf(r) == resolv_conf /\ JustResolved(r) /\ file.status = "ok"
\* what the resolver of run r answered
Answered(r) == IF host_ip[r] # NoIp THEN Ok(host_ip[r]) ELSE Err(ret[r].err)

\* C7 (as stated): the first line whose first word is "nameserver" alone
\* determines the result of strategy A, which is that line's second word.
C7_FirstKeywordLineWins ==
    \A r \in Runs :
        (ReadResolvConf(r) /\ KeywordLines # {}) =>
            LET words == FileWords[First(KeywordLines)]
            IN IF Len(words) >= 2 THEN Answered(r) = ParseIpAddr(words[2])
                                  ELSE ~Answered(r).ok

\* C7 (amended): the first line whose first word is "nameserver" and which
\* has a second word alone determines the result of strategy A, which is
\* that line's second word; later lines are ignored, and so are earlier
\* lines that hold the keyword and nothing after it.
C7_FirstAddressLineWins ==
    \A r \in Runs :
        (ReadResolvConf(r) /\ AddressLines # {}) =>
            Answered(r) = ParseIpAddr(FileWords[First(AddressLines)][2])

C7_Witness ==
    /\ ReadResolvConf(1)
    /\ Cardinality(AddressLines) = 2
    /\ \E i, j \in AddressLines :
          /\ i < j
          /\ FileWords[i][2] = <<TxtL>>
          /\ FileWords[j][2] = <<TxtA>>
    /\ host_ip[1] = IpL

\* strategy B has just run and `ip` printed a JSON array
ReadRoutes(r) ==
    /\ ~resolv_conf
    /\ JustResolved(r)
    /\ cmd.exec = "ok" /\ cmd.json /\ cmd.js.t = "array"
\* the same output of `ip` cut down to its first record
FirstRecordOnly == [cmd EXCEPT !.js = Array(<<cmd.js.values[1]>>)]

\* C8: on an empty array strategy B fails with NotFound; on an array of more
\* than one record it writes one warning to stderr (none otherwise) and
\* answers what it answers on the array of record 0 alone.
C8_RecordCount ==
    \A r \in Runs :
        ReadRoutes(r) =>
            LET n == Len(cmd.js.values)
            IN /\ n = 0 => Answered(r) = Err("NotFound")
               /\ Len(SelectSeq(stderr[r], IsWarning)) = IF n > 1 THEN 1 ELSE 0
               /\ n > 1 => Answered(r) = host_ip_from_route(FirstRecordOnly, FALSE).res

C8_Witness ==
    /\ ReadRoutes(1)
    /\ Len(cmd.js.values) = 2
    /\ cmd.js.values[1] = Object(Default, Str(<<TxtA>>))
    /\ cmd.js.values[2] = Object(Null, Null)
    /\ host_ip[1] = IpA
    /\ Len(SelectSeq(stderr[1], IsWarning)) = 1

\* C9: strategy B checks the destination of the chosen record before its
\* gateway: a record whose "dst" is absent or is not the string "default"
\* gives ValidationError whatever its gateway; a record whose "dst" is
\* "default" gives ParseError when its gateway is absent, is not a string or
\* is not an IP address, and the gateway's address otherwise.
C9_DestinationBeforeGateway ==
    \A r \in Runs :
        (ReadRoutes(r) /\ cmd.js.values # <<>>) =>
            LET rec == cmd.js.values[1]
                dstOk == rec.dst = [t |-> "string", s |-> <<"default">>]
                gw == rec.gateway
            IN /\ ~dstOk => Answered(r) = Err("ValidationError")
               /\ (Answered(r).ok \/ Answered(r).err = "ParseError") => dstOk
               /\ (dstOk /\ gw.t # "string") => Answered(r) = Err("ParseError")
               /\ (dstOk /\ gw.t = "string") => Answered(r) = ParseIpAddr(gw.s)

C9_Witness ==
    /\ ReadRoutes(1)
    /\ cmd.js.values # <<>>
    /\ cmd.js.values[1] = Object(Null, Null)
    /\ ret[1].err = "ValidationError"

\* C10: two runs with the same arguments but for --verbose, the same
\* resolver input and the same connect results end with the same number of
\* connect attempts and of sleeps, the same time slept, the same stdout and
\* the same exit code.
C10_VerboseChangesNothing ==
    (Terminal(1) /\ Terminal(2)) =>
        /\ verbose[1] # verbose[2]
        /\ attempts[1] = attempts[2]
        /\ sleeps[1] = sleeps[2]
        /\ slept[1] = slept[2]
        /\ stdout[1] = stdout[2]
        /\ exit_code[1] = exit_code[2]
        /\ SelectSeq(stderr[1], IsDebug) # <<>> \/ SelectSeq(stderr[2], IsDebug) # <<>>
              => stderr[1] # stderr[2]

C10_Witness ==
    /\ Terminal(1) /\ Terminal(2)
    /\ verbose[2]
    /\ attempts[2] = 3
    /\ Absent(2)
    /\ Len(stderr[2]) > Len(stderr[1])

\* C11: on a readable resolver file with no line whose first word is
\* "nameserver" (an empty file, the keyword only as a later word, the keyword
\* only as the start of a longer first word) strategy A fails with NotFound.
C11_NoKeywordLineNotFound ==
    \A r \in Runs :
        (ReadResolvConf(r) /\ KeywordLines = {}) => Answered(r) = Err("NotFound")

C11_Witness ==
    /\ ReadResolvConf(1)
    /\ Lines(file.text) = <<(<<TxtX, SP, NS, SP, TxtB>>), (<<NS, TxtX, SP, TxtB>>)>>
    /\ KeywordLines = {}
    /\ ret[1].err = "NotFound"

\* C12: a connect error that is neither refused nor timed out is the run's
\* last attempt, whatever the retry budget: no sleep follows it, run()
\* returns the error, and the run ends Failed (exit 2), never Absent.
C12_OtherErrorAborts ==
    \A r \in Runs : \A k \in 1..attempts[r] :
        results[k] = "other" =>
            /\ attempts[r] = k
            /\ pc[r] \in {"Matching", "Returned", "Exited"}
            /\ sleeps[r] = Count(SubSeq(results, 1, k - 1), "refused")
            /\ pc[r] \in {"Returned", "Exited"} => ret[r] = Failure("IoError")
            /\ Terminal(r) =>
                  /\ Failed(r)
                  /\ Errors(r) = <<[kind |-> "error", what |-> "IoError"]>>

C12_Witness ==
    /\ Failed(1)
    /\ retries = 3
    /\ results = <<"timed_out", "other">>
    /\ attempts[1] = 2
    /\ sleeps[1] = 0

\* C13 (as stated): the retry count in force is at least 1 and the timeout
\* is positive, so a run that ends Absent or Succeeded has made at least one
\* connect attempt; retries = 0 does not yield Absent.
C13_RetryBudgetNeverEmpty ==
    \A r \in Runs :
        (Absent(r) \/ Succeeded(r)) =>
            /\ retries >= 1
            /\ timeout > 0
            /\ attempts[r] >= 1

\* the orchestrator's state, from where the run is and what run() returned
OrchState(at, tag) ==
    IF at = "Resolving" THEN "Resolving"
    ELSE IF at \in {"Probing", "Loop", "Matching", "Sleeping"} THEN "Probing"
    ELSE IF tag = "some" THEN "Succeeded"
    ELSE IF tag = "nothing" THEN "Absent"
    ELSE "Failed"
\* what of the state belongs to run r
RunState(r) ==
    <<pc[r], host_ip[r], port[r], retry[r], last[r], conn[r], attempts[r], sleeps[r],
      slept[r], io[r], file_reads[r], cmd_runs[r], ret[r], stdout[r], stderr[r],
      exit_code[r]>>

\* C14, its steps: the orchestrator's state changes only from Resolving to
\* Probing or Failed and from Probing to Succeeded, Absent or Failed; the
\* resolver is called in the step that leaves Resolving and in no other; a
\* run that has exited changes nothing any more.
C14_Step(r) ==
    LET from == OrchState(pc[r], ret[r].tag)
        to == OrchState(pc'[r], ret'[r].tag)
    IN /\ from # to =>
             \/ from = "Resolving" /\ to \in {"Probing", "Failed"}
             \/ from = "Probing" /\ to \in {"Succeeded", "Absent", "Failed"}
       /\ (file_reads'[r] + cmd_runs'[r] # file_reads[r] + cmd_runs[r])
             <=> from = "Resolving" /\ to # "Resolving"
       /\ from \in {"Succeeded", "Absent", "Failed"} => ret'[r] = ret[r]
       /\ pc[r] = "Exited" => RunState(r)' = RunState(r)

\* C14, its states: the resolver has been called once when Resolving is
\* left and never again; when the resolver fails the run is Failed with the
\* resolver's error, no port computed, no connect attempt made, also when
\* the display number overflows; the exit code is that of the state reached.
C14_State(r) ==
    /\ file_reads[r] + cmd_runs[r] = IF pc[r] = "Resolving" THEN 0 ELSE 1
    /\ (pc[r] # "Resolving" /\ ~Strategy.ok) =>
          /\ OrchState(pc[r], ret[r].tag) = "Failed"
          /\ ret[r] = Failure(Strategy.err)
          /\ port[r] = 0
          /\ attempts[r] = 0
          /\ Terminal(r) => Errors(r) = <<[kind |-> "error", what |-> Strategy.err]>>
    /\ Terminal(r) =>
          exit_code[r] = CASE OrchState(pc[r], ret[r].tag) = "Succeeded" -> 0
                           [] OrchState(pc[r], ret[r].tag) = "Absent" -> 1
                           [] OrchState(pc[r], ret[r].tag) = "Failed" -> 2

\* C14: the orchestrator only moves Resolving -> Probing -> {Succeeded,
\* Absent, Failed} or Resolving -> Failed; the resolver runs exactly once; a
\* resolver failure gives Failed with the resolver's error before the port
\* is computed or a connect attempt is made; a terminal state has no successor.
C14_OneShotStateMachine ==
    /\ [](\A r \in Runs : C14_State(r))
    /\ [][\A r \in Runs : C14_Step(r)]_vars

C14_Witness ==
    /\ Failed(1)
    /\ ~Strategy.ok
    /\ Overflows
    /\ ret[1].err = "NotFound"
    /\ file_reads[1] = 1

IsIpText(word) == word \in {<<TxtA>>, <<TxtB>>, <<TxtL>>, <<TxtS>>}

\* C16: when the second word of the first "nameserver" line is not an IP
\* address, strategy A fails with ParseError, also when a later "nameserver"
\* line holds a valid address.
C16_BadAddressNoFallThrough ==
    \A r \in Runs :
        (ReadResolvConf(r) /\ KeywordLines # {}) =>
            LET words == FileWords[First(KeywordLines)]
            IN (Len(words) >= 2 /\ ~IsIpText(words[2])) => Answered(r) = Err("ParseError")

C16_Witness ==
    /\ ReadResolvConf(1)
    /\ Lines(file.text) = <<(<<NS, SP, TxtX>>), (<<NS, SP, TxtA, SP, TxtX>>)>>
    /\ ret[1].err = "ParseError"
    /\ host_ip[1] = NoIp

\* C17: every run reaches a terminal state, given that connect attempts and
\* sleeps return; it makes at most `retries` connect attempts and at most one
\* sleep per refused attempt; run() returns Ok(None) only after exactly
\* `retries` attempts, each refused or timed out.
C17_Terminates ==
    /\ <>Terminal(1)
    /\ [](/\ attempts[1] <= retries
          /\ sleeps[1] <= Count(Seen(1), "refused")
          /\ ret[1].tag = "nothing" =>
                /\ attempts[1] = retries
                /\ \A i \in 1..retries : results[i] \in {"refused", "timed_out"})

C17_Witness ==
    /\ Absent(1)
    /\ retries = 3
    /\ results = <<"refused", "timed_out", "refused">>
    /\ attempts[1] = 3
    /\ sleeps[1] = 2

\* C18: a run holds at most one connection, and only between a successful
\* connect and the return that follows it: none while it is about to make
\* the next attempt, while it sleeps, or once run() has returned and the
\* process has exited, also when it Succeeded.
C18_SocketDiscipline ==
    \A r \in Runs :
        /\ conn[r] \in {0, 1}
        /\ conn[r] = 1 <=> (pc[r] = "Matching" /\ last[r] = "ok")
        /\ pc[r] \in {"Loop", "Sleeping", "Returned", "Exited"} => conn[r] = 0
        /\ Terminal(r) => conn[r] = 0

C18_Witness ==
    /\ Succeeded(1)
    /\ retries = 2
    /\ results = <<"refused", "ok">>
    /\ conn[1] = 0

====
